---- MODULE Spec2Model ----
(***************************************************************************)
(* The IIS log analyzer of src/app.py: parse_iis_log, generate_summary,    *)
(* create_pivot_table, get_error_apps, create_xlsx and the module-level    *)
(* pipeline that runs them on one uploaded file.                           *)
(*                                                                         *)
(* A line of the file is the sequence of its whitespace-separated tokens   *)
(* (what str.split() returns) together with whether the line starts with   *)
(* whitespace (which decides str.startswith).  A cell of a DataFrame is a  *)
(* record: a text, a number (a fraction n/d in lowest terms), NaN, None    *)
(* (the padding of a short row) or a timestamp.                            *)
(***************************************************************************)
EXTENDS Integers, Sequences, FiniteSets, TLC

VARIABLES
    file,        \* the uploaded file: the lines of file_content
    pc,          \* the position of the pipeline
    i,           \* the number of lines the for loop has consumed
    fields,      \* parse_iis_log's fields: [found, names] (found = FALSE: None)
    data,        \* parse_iis_log's data: the accepted rows
    raw_df,      \* the parsed and coerced table
    summary_df,  \* generate_summary's result
    pivot_df,    \* create_pivot_table's result (present = FALSE: None)
    error_df,    \* get_error_apps's result (present = FALSE: None)
    xlsx_output, \* the workbook: the sheet names in the order written
    shown,       \* what the page has shown, in order
    failure,     \* the stage whose exception ended the run ("" if none)
    calls        \* the functions the pipeline has called, in order

vars == <<file, pc, i, fields, data, raw_df, summary_df, pivot_df, error_df,
          xlsx_output, shown, failure, calls>>

\* ------------------------------------------------------------------ bounds

\* The longest file of the family that varies the structure of the file.
MaxLines == 4
\* The largest number of data rows of the family that varies the values.
MaxRows == 2

\* ------------------------------------------------------------------- cells

RECURSIVE GCD(_, _)
GCD(a, b) == IF b = 0 THEN a ELSE GCD(b, a % b)

Txt(s) == [k |-> "str", s |-> s, n |-> 0, d |-> 1]
Numv(n) == [k |-> "num", s |-> "", n |-> n, d |-> 1]
\* The quotient a / b of two naturals, b > 0, in lowest terms.
Frac(a, b) == LET g == GCD(a, b) IN
              [k |-> "num", s |-> "", n |-> a \div g, d |-> b \div g]
NaN == [k |-> "nan", s |-> "", n |-> 0, d |-> 1]
None == [k |-> "none", s |-> "", n |-> 0, d |-> 1]
Timestamp(dateTok, secs) == [k |-> "ts", s |-> dateTok, n |-> secs, d |-> 1]

IsNum(c) == c.k = "num"

\* The literals of the model that pd.to_numeric parses, with their values:
\* "0200" and "200" are different texts and the same number.
NumLiteral == [t \in {"200", "0200", "499", "500", "10", "20", "7"} |->
                 CASE t = "200" -> 200
                   [] t = "0200" -> 200
                   [] t = "499" -> 499
                   [] t = "500" -> 500
                   [] t = "10" -> 10
                   [] t = "20" -> 20
                   [] t = "7" -> 7]

\* pd.to_numeric(..., errors='coerce') of one cell: a text that is no number,
\* and the None of a padded row, become NaN.
ToNumeric(c) ==
    IF c.k = "num" THEN c
    ELSE IF c.k = "str" /\ c.s \in DOMAIN NumLiteral THEN Numv(NumLiteral[c.s])
    ELSE NaN

\* The dates and times of the model that pd.to_datetime parses.
DateLiteral == {"2024-01-01"}
TimeLiteral == [t \in {"00:00:00", "00:00:01"} |->
                  IF t = "00:00:00" THEN 0 ELSE 1]

\* pd.to_datetime(date + ' ' + time, errors='coerce') of one row.
ToDatetime(dc, tc) ==
    IF dc.k = "str" /\ tc.k = "str" /\ dc.s \in DateLiteral
       /\ tc.s \in DOMAIN TimeLiteral
    THEN Timestamp(dc.s, TimeLiteral[tc.s])
    ELSE NaN

\* ------------------------------------------------------------------- lines

Line(indent, toks) == [indent |-> indent, toks |-> toks]

\* The tokens of the model that begin with '#', and those that begin with
\* '#Fields:'.
HashTokens == {"#Fields:", "#Software:", "#x"}
FieldsTokens == {"#Fields:"}

\* line.startswith('#')
StartsWithHash(line) ==
    ~line.indent /\ Len(line.toks) > 0 /\ Head(line.toks) \in HashTokens
\* line.startswith('#Fields:')
StartsWithFields(line) ==
    ~line.indent /\ Len(line.toks) > 0 /\ Head(line.toks) \in FieldsTokens
\* line.split()
Split(line) == line.toks
\* line.strip() is not empty
NotBlank(line) == Len(line.toks) > 0

\* --------------------------------------------------------------- sequences

RECURSIVE SeqSum(_)
SeqSum(s) == IF s = <<>> THEN 0 ELSE Head(s) + SeqSum(Tail(s))

RECURSIVE SeqMax(_)
SeqMax(s) == IF Len(s) = 1 THEN s[1]
             ELSE LET m == SeqMax(Tail(s)) IN IF s[1] >= m THEN s[1] ELSE m

RECURSIVE SeqMin(_)
SeqMin(s) == IF Len(s) = 1 THEN s[1]
             ELSE LET m == SeqMin(Tail(s)) IN IF s[1] <= m THEN s[1] ELSE m

Range(s) == {s[j] : j \in DOMAIN s}

\* The number of positions of s that hold x.
Occurrences(s, x) == Cardinality({j \in DOMAIN s : s[j] = x})

\* The integers of S in ascending order.
RECURSIVE SortInts(_)
SortInts(S) == IF S = {} THEN <<>>
               ELSE LET m == CHOOSE x \in S : \A y \in S : x <= y
                    IN <<m>> \o SortInts(S \ {m})

\* The order of Python's str comparison on the texts of the model.
Lexicographic == <<"#x", "-", "/a", "/b", "00:00:00", "00:00:01", "0200",
                   "10", "20", "200", "2024-01-01", "499", "500", "7">>
StrRank(s) == CHOOSE j \in DOMAIN Lexicographic : Lexicographic[j] = s

\* The texts of S in ascending order.
RECURSIVE SortStrs(_)
SortStrs(S) == IF S = {} THEN <<>>
               ELSE LET m == CHOOSE x \in S : \A y \in S : StrRank(x) <= StrRank(y)
                    IN <<m>> \o SortStrs(S \ {m})

\* ------------------------------------------------------------------ frames

\* A DataFrame: its column names and its rows of cells; present = FALSE is
\* Python's None.
Frame(columns, rows) == [present |-> TRUE, columns |-> columns, rows |-> rows]
NoFrame == [present |-> FALSE, columns |-> <<>>, rows |-> <<>>]

\* c in df.columns
HasColumn(df, c) == c \in Range(df.columns)
\* The position of column c (the first one, should the name occur twice).
ColIdx(df, c) == CHOOSE j \in DOMAIN df.columns :
                    /\ df.columns[j] = c
                    /\ \A q \in DOMAIN df.columns : df.columns[q] = c => j <= q
\* df[c] for a column name that occurs once: the cells of the column.
Column(df, c) == [r \in DOMAIN df.rows |-> df.rows[r][ColIdx(df, c)]]

\* ----------------------------------------------------------- parse_iis_log

numeric_cols == {"s-port", "sc-status", "sc-substatus", "sc-win32-status",
                 "sc-bytes", "cs-bytes", "time-taken"}

NoFields == [found |-> FALSE, names |-> <<>>]

\* `not fields or not data`: fields is None or the empty list, or no row was
\* accepted.
NothingParsed(f, d) == ~f.found \/ f.names = <<>> \/ d = <<>>

\* The widest accepted row.
Widest(d) == SeqMax([r \in DOMAIN d |-> Len(d[r])])

\* pd.DataFrame(data, columns=fields) raises unless the widest row has as many
\* cells as there are column names; a shorter row is padded with None.
ShapeMismatch(f, d) == Widest(d) # Len(f.names)
PadRow(row, k) == [j \in 1..k |-> IF j <= Len(row) THEN Txt(row[j]) ELSE None]
DataFrame(d, names) == Frame(names, [r \in DOMAIN d |-> PadRow(d[r], Len(names))])

\* df[col] of a column name that occurs twice is a DataFrame, on which
\* pd.to_numeric raises, and on which the date + ' ' + time of line 43 gives
\* no Series that pd.to_datetime parses.
DuplicateCoerced(names) ==
    \/ \E c \in numeric_cols : Occurrences(names, c) > 1
    \/ /\ "date" \in Range(names)
       /\ "time" \in Range(names)
       /\ (Occurrences(names, "date") > 1 \/ Occurrences(names, "time") > 1)

\* Lines 36-39: each numeric column that is present, converted.
CoerceNumeric(df) ==
    Frame(df.columns,
          [r \in DOMAIN df.rows |->
             [j \in DOMAIN df.columns |->
                IF df.columns[j] \in numeric_cols
                THEN ToNumeric(df.rows[r][j])
                ELSE df.rows[r][j]]])

\* df[c] = cells: the column replaced where it exists, appended otherwise.
SetColumn(df, c, cells) ==
    IF HasColumn(df, c)
    THEN Frame(df.columns,
               [r \in DOMAIN df.rows |->
                  [df.rows[r] EXCEPT ![ColIdx(df, c)] = cells[r]]])
    ELSE Frame(Append(df.columns, c),
               [r \in DOMAIN df.rows |-> Append(df.rows[r], cells[r])])

\* Lines 42-43: the datetime column, when date and time are both present.
AddDatetime(df) ==
    IF HasColumn(df, "date") /\ HasColumn(df, "time")
    THEN SetColumn(df, "datetime",
                   [r \in DOMAIN df.rows |->
                      ToDatetime(Column(df, "date")[r], Column(df, "time")[r])])
    ELSE df

\* Lines 30-47 raise: nothing parsed, a shape pandas refuses, or a coerced
\* column that occurs twice.
ParseRaises(f, d) ==
    \/ NothingParsed(f, d)
    \/ ShapeMismatch(f, d)
    \/ DuplicateCoerced(f.names)

\* Lines 33-45: the table parse_iis_log returns when it does not raise.
ParsedFrame(f, d) == AddDatetime(CoerceNumeric(DataFrame(d, f.names)))

\* ------------------------------------------------------------- aggregation

\* The time-taken values of the rows R that are numbers, in row order: what
\* mean, max, min and count aggregate, NaN skipped.
Taken(df, R) ==
    LET tt == Column(df, "time-taken")
        idx == SelectSeq([j \in 1..Len(df.rows) |-> j],
                         LAMBDA j : j \in R /\ IsNum(tt[j]))
    IN [q \in DOMAIN idx |-> tt[idx[q]].n]

Mean(v) == IF v = <<>> THEN NaN ELSE Frac(SeqSum(v), Len(v))
Max(v) == IF v = <<>> THEN NaN ELSE Numv(SeqMax(v))
Min(v) == IF v = <<>> THEN NaN ELSE Numv(SeqMin(v))

\* ------------------------------------------------------- generate_summary

\* Line 51: a required column is missing.
SummaryRaises(df) ==
    ~HasColumn(df, "sc-status") \/ ~HasColumn(df, "time-taken")

\* The group keys of df.groupby('sc-status'): the numbers of the column
\* (groupby's default dropna=True leaves the rows with a NaN key out).
StatusKeys(df) ==
    {c.n : c \in {x \in Range(Column(df, "sc-status")) : IsNum(x)}}

\* The rows of the group of status s.
RowsWithStatus(df, s) ==
    {j \in DOMAIN df.rows : Column(df, "sc-status")[j] = Numv(s)}

\* The rows of the group whose time-taken is a number, counted.
GroupCountTimed(df, R) == Numv(Len(Taken(df, R)))

\* count=('sc-status', 'size'): the number of rows of the group.
GroupCount(df, R) == Numv(Cardinality(R))

\* The group keys from the largest down.
SummaryOrderDescending(df) ==
    LET up == SortInts(StatusKeys(df))
    IN [q \in DOMAIN up |-> up[Len(up) + 1 - q]]

\* The group keys in the order of the result (groupby's default sort=True).
SummaryOrder(df) == SortInts(StatusKeys(df))

\* Lines 54-62.
generate_summary(df) ==
    LET keys == SummaryOrder(df) IN
    Frame(<<"sc_status", "count", "avg_time_taken", "max_time_taken",
            "min_time_taken">>,
          [q \in DOMAIN keys |->
             LET R == RowsWithStatus(df, keys[q])
                 v == Taken(df, R)
             IN <<Numv(keys[q]), GroupCount(df, R), Mean(v), Max(v), Min(v)>>])

\* ----------------------------------------------------- create_pivot_table

fill_value == 0

\* A column name of the flattened pivot, '_'.join(map(str, col)): the
\* aggregate and the status, which str() prints with a trailing ".0" when
\* the sc-status column is a float column.
PivotCol(agg, s, float) == [agg |-> agg, status |-> s, float |-> float]
\* The column reset_index() makes of the index.
IndexCol == [agg |-> "cs-uri-stem", status |-> 0, float |-> FALSE]

\* The sc-status column holds a NaN, so that pandas keeps it as float64.
StatusIsFloat(df) == \E c \in Range(Column(df, "sc-status")) : ~IsNum(c)

\* Line 67 (and line 81): both key columns are present.
HasKeys(df) == HasColumn(df, "sc-status") /\ HasColumn(df, "cs-uri-stem")

\* pivot_table raises KeyError without the values column, and groupby
\* raises on a key that names two columns.
KeyedRaises(df) ==
    ~HasColumn(df, "time-taken") \/ Occurrences(df.columns, "cs-uri-stem") > 1

\* The rows pivot_table groups: both keys are not null (dropna=True).
Keyed(df) ==
    {j \in DOMAIN df.rows :
        /\ IsNum(Column(df, "sc-status")[j])
        /\ Column(df, "cs-uri-stem")[j].k = "str"}

\* The rows of endpoint e and status s.
PairRows(df, e, s) ==
    {j \in Keyed(df) :
        /\ Column(df, "cs-uri-stem")[j].s = e
        /\ Column(df, "sc-status")[j].n = s}

\* The (endpoint, status) groups of the 'count' piece: every observed pair
\* (a count is never NaN).
CountGroups(df) ==
    {<<Column(df, "cs-uri-stem")[j].s, Column(df, "sc-status")[j].n>> :
        j \in Keyed(df)}

\* The groups of the 'mean' and of the 'max' piece: pivot_table drops the
\* groups whose aggregate is NaN (agged.dropna(how="all")), those with no
\* number in time-taken.
ValueGroups(df) ==
    {g \in CountGroups(df) : Taken(df, PairRows(df, g[1], g[2])) # <<>>}

Endpoints(groups) == {g[1] : g \in groups}
Statuses(groups) == {g[2] : g \in groups}

\* No fill_value: the unobserved cell stays NaN.
NoFill(c) == c

\* An unobserved cell of a piece: unstack(fill_value=0) and fillna(0).
Fill(c) == IF c.k = "nan" THEN Numv(fill_value) ELSE c

CountCell(df, e, s) == Numv(Len(Taken(df, PairRows(df, e, s))))
\* A cell of the 'mean' or 'max' piece; concat(pieces, axis=1) leaves NaN
\* in the row of an endpoint the piece does not have.
MeanCell(df, e, s) ==
    IF e \notin Endpoints(ValueGroups(df)) THEN NaN
    ELSE Fill(Mean(Taken(df, PairRows(df, e, s))))
MaxCell(df, e, s) ==
    IF e \notin Endpoints(ValueGroups(df)) THEN NaN
    ELSE Fill(Max(Taken(df, PairRows(df, e, s))))

\* Lines 68-77.
PivotFrame(df) ==
    LET es == SortStrs(Endpoints(CountGroups(df)))
        cs == SortInts(Statuses(CountGroups(df)))
        vs == SortInts(Statuses(ValueGroups(df)))
        fl == StatusIsFloat(df)
    IN Frame(<<IndexCol>>
               \o [q \in DOMAIN cs |-> PivotCol("count", cs[q], fl)]
               \o [q \in DOMAIN vs |-> PivotCol("mean", vs[q], fl)]
               \o [q \in DOMAIN vs |-> PivotCol("max", vs[q], fl)],
             [r \in DOMAIN es |->
                <<Txt(es[r])>>
                  \o [q \in DOMAIN cs |-> CountCell(df, es[r], cs[q])]
                  \o [q \in DOMAIN vs |-> MeanCell(df, es[r], vs[q])]
                  \o [q \in DOMAIN vs |-> MaxCell(df, es[r], vs[q])]])

\* Lines 66-78.
create_pivot_table(df) == IF HasKeys(df) THEN PivotFrame(df) ELSE NoFrame

\* --------------------------------------------------------- get_error_apps

\* The comparison taken strictly.
IsErrorAbove(c) == IsNum(c) /\ c.n > 500 * c.d

\* Line 82: df['sc-status'] >= 500, which is False of NaN.
IsError(c) == IsNum(c) /\ c.n >= 500 * c.d

ErrorRows(df) == {j \in DOMAIN df.rows : IsError(Column(df, "sc-status")[j])}

\* The rows of errors.groupby('cs-uri-stem') with key e.
ErrorRowsOf(df, e) ==
    {j \in ErrorRows(df) : Column(df, "cs-uri-stem")[j] = Txt(e)}

\* The group keys: the endpoints of the error rows (a None key is left out).
ErrorEndpoints(df) ==
    {Column(df, "cs-uri-stem")[j].s :
        j \in {r \in ErrorRows(df) : Column(df, "cs-uri-stem")[r].k = "str"}}

\* Lines 82-88.
ErrorFrame(df) ==
    LET es == SortStrs(ErrorEndpoints(df)) IN
    Frame(<<"cs-uri-stem", "error_count", "avg_time", "max_time">>,
          [r \in DOMAIN es |->
             LET R == ErrorRowsOf(df, es[r])
                 v == Taken(df, R)
             IN <<Txt(es[r]), Numv(Cardinality(R)), Mean(v), Max(v)>>])

\* Lines 80-89.
get_error_apps(df) == IF HasKeys(df) THEN ErrorFrame(df) ELSE NoFrame

\* ------------------------------------------------------------- create_xlsx

\* The raw data written before the summary.
create_xlsx_raw_first(s_df, r_df, p_df, e_df) ==
    <<"RawData", "StatusSummary">>
      \o (IF p_df.present THEN <<"PivotTable">> ELSE <<>>)
      \o (IF e_df.present THEN <<"ErrorSummary">> ELSE <<>>)

\* Lines 94-100: the sheets in the order they are written.
create_xlsx(s_df, r_df, p_df, e_df) ==
    <<"StatusSummary", "RawData">>
      \o (IF p_df.present THEN <<"PivotTable">> ELSE <<>>)
      \o (IF e_df.present THEN <<"ErrorSummary">> ELSE <<>>)

\* ------------------------------------------------------------------ inputs

Fields(names) == Line(FALSE, <<"#Fields:">> \o names)

\* The lines of the files that vary the structure: directives (one without
\* time-taken, one that names sc-status twice, one that names nothing), a
\* comment, a blank line, an indented line whose first token begins with
\* '#', and data lines of two and three tokens.
StructLines ==
    { Fields(<<"sc-status", "time-taken">>),
      Fields(<<"cs-uri-stem", "sc-status", "time-taken">>),
      Fields(<<"date", "time", "sc-status">>),
      Fields(<<"sc-status", "sc-status">>),
      Fields(<<>>),
      Line(FALSE, <<"#Software:", "IIS">>),
      Line(FALSE, <<>>),
      Line(TRUE, <<"#x", "7">>),
      Line(FALSE, <<"0200", "10">>),
      Line(FALSE, <<"/a", "500", "20">>),
      Line(FALSE, <<"2024-01-01", "00:00:01", "200">>) }

StructFiles == UNION {[1..n -> StructLines] : n \in 0..MaxLines}

\* The data lines of the files that vary the values: an endpoint, a status
\* ("-" is no number) and a time taken.
ValueLines ==
    { Line(FALSE, <<e, s, t>>) :
        e \in {"/a", "/b"}, s \in {"200", "499", "500", "-"},
        t \in {"10", "20", "-"} }

ValueFiles ==
    { <<Fields(<<"cs-uri-stem", "sc-status", "time-taken">>)>> \o rows :
        rows \in UNION {[1..n -> ValueLines] : n \in 1..MaxRows} }

\* ---------------------------------------------------------------- pipeline

\* Lines 110-112: a file was uploaded and nothing has run yet.
Start ==
    /\ pc = "scan"
    /\ i = 0
    /\ fields = NoFields
    /\ data = <<>>
    /\ raw_df = NoFrame
    /\ summary_df = NoFrame
    /\ pivot_df = NoFrame
    /\ error_df = NoFrame
    /\ xlsx_output = <<>>
    /\ shown = <<>>
    /\ failure = ""
    /\ calls = <<>>

\* The run on a file of any structure.
Init == file \in StructFiles /\ Start

\* The run on a file of one schema and any values.
InitValues == file \in ValueFiles /\ Start

\* The marker token kept among the names.
DirectiveFieldsWithMarker(line) == [found |-> TRUE, names |-> Split(line)]

\* Line 23: the names a directive line declares.
DirectiveFields(line) == [found |-> TRUE, names |-> Tail(Split(line))]

\* Line 27: the row has as many tokens as the current schema has names.
Accepted(row, f) == Len(row) = Len(f.names)

\* The row put in front of the rows accepted so far.
AddRowFirst(d, row) == <<row>> \o d

\* Line 28.
AddRow(d, row) == Append(d, row)

\* Lines 21-28: fields after the line.
FieldsAfter(f, line) ==
    IF StartsWithHash(line) /\ StartsWithFields(line)
    THEN DirectiveFields(line)
    ELSE f

\* Lines 21-28: data after the line.
DataAfter(f, d, line) ==
    IF StartsWithHash(line) THEN d
    ELSE IF f.found /\ f.names # <<>> /\ NotBlank(line)
            /\ Accepted(Split(line), f)
         THEN AddRow(d, Split(line))
         ELSE d

\* The exception shown, and the run going on to the workbook.
AbortAndGoOn(stage) ==
    /\ pc' = "xlsx"
    /\ failure' = stage
    /\ shown' = Append(shown, "error")

\* Lines 190-191: the exception of a stage ends the run with st.error.
Abort(stage) ==
    /\ pc' = "failed"
    /\ failure' = stage
    /\ shown' = Append(shown, "error")

\* One iteration of the for loop of lines 20-28.
ScanLine ==
    /\ pc = "scan"
    /\ i < Len(file)
    /\ fields' = FieldsAfter(fields, file[i + 1])
    /\ data' = DataAfter(fields, data, file[i + 1])
    /\ i' = i + 1
    /\ UNCHANGED <<file, pc, raw_df, summary_df, pivot_df, error_df,
                   xlsx_output, shown, failure, calls>>

\* Lines 30-47 and 113: the loop is over; the table is built or the parse
\* raises.
BuildFrame ==
    /\ pc = "scan"
    /\ i = Len(file)
    /\ IF ParseRaises(fields, data)
       THEN Abort("parse_iis_log") /\ UNCHANGED raw_df
       ELSE /\ raw_df' = ParsedFrame(fields, data)
            /\ pc' = "summary"
            /\ UNCHANGED <<shown, failure>>
    /\ calls' = Append(calls, "parse_iis_log")
    /\ UNCHANGED <<file, i, fields, data, summary_df, pivot_df, error_df,
                   xlsx_output>>

\* Line 114.
Summarize ==
    /\ pc = "summary"
    /\ IF SummaryRaises(raw_df)
       THEN Abort("generate_summary") /\ UNCHANGED summary_df
       ELSE /\ summary_df' = generate_summary(raw_df)
            /\ pc' = "pivot"
            /\ UNCHANGED <<shown, failure>>
    /\ calls' = Append(calls, "generate_summary")
    /\ UNCHANGED <<file, i, fields, data, raw_df, pivot_df, error_df,
                   xlsx_output>>

\* Line 115.
Pivot ==
    /\ pc = "pivot"
    /\ IF HasKeys(raw_df) /\ KeyedRaises(raw_df)
       THEN Abort("create_pivot_table") /\ UNCHANGED pivot_df
       ELSE /\ pivot_df' = create_pivot_table(raw_df)
            /\ pc' = "errors"
            /\ UNCHANGED <<shown, failure>>
    /\ calls' = Append(calls, "create_pivot_table")
    /\ UNCHANGED <<file, i, fields, data, raw_df, summary_df, error_df,
                   xlsx_output>>

\* Line 116.
Errors ==
    /\ pc = "errors"
    /\ IF HasKeys(raw_df) /\ KeyedRaises(raw_df)
       THEN Abort("get_error_apps") /\ UNCHANGED error_df
       ELSE /\ error_df' = get_error_apps(raw_df)
            /\ pc' = "xlsx"
            /\ UNCHANGED <<shown, failure>>
    /\ calls' = Append(calls, "get_error_apps")
    /\ UNCHANGED <<file, i, fields, data, raw_df, summary_df, pivot_df,
                   xlsx_output>>

\* Line 118.
Export ==
    /\ pc = "xlsx"
    /\ xlsx_output' = create_xlsx(summary_df, raw_df, pivot_df, error_df)
    /\ pc' = "present"
    /\ calls' = Append(calls, "create_xlsx")
    /\ UNCHANGED <<file, i, fields, data, raw_df, summary_df, pivot_df,
                   error_df, shown, failure>>

\* Line 160: raw_df['hour'], the datetime floored to the hour.
AddHour(df) ==
    IF HasColumn(df, "datetime")
    THEN SetColumn(df, "hour",
                   [r \in DOMAIN df.rows |->
                      LET c == Column(df, "datetime")[r] IN
                      IF c.k = "ts" THEN Timestamp(c.s, (c.n \div 3600) * 3600)
                      ELSE c])
    ELSE df

\* Lines 120-188: the page after the workbook is made.
Present ==
    /\ pc = "present"
    /\ shown' = shown
         \o <<"success", "download">>
         \o (IF pivot_df.present THEN <<"pivot">> ELSE <<"no pivot">>)
         \o (IF error_df.present /\ error_df.rows # <<>>
             THEN <<"errors">> ELSE <<"no errors">>)
         \o <<"charts", "summary", "raw">>
    /\ raw_df' = AddHour(raw_df)
    /\ pc' = "done"
    /\ UNCHANGED <<file, i, fields, data, summary_df, pivot_df, error_df,
                   xlsx_output, failure, calls>>

Next ==
    \/ ScanLine
    \/ BuildFrame
    \/ Summarize
    \/ Pivot
    \/ Errors
    \/ Export
    \/ Present

Spec == Init /\ [][Next]_vars

SpecValues == InitValues /\ [][Next]_vars

\* ------------------------------------------------------------------ claims

\* The names the last '#Fields:' line among the first n lines declares (the
\* tokens after the marker), or <<>> when there is none.
DirectivesIn(n) == {j \in 1..n : StartsWithFields(file[j])}
LastDirective(n) == CHOOSE j \in DirectivesIn(n) : \A q \in DirectivesIn(n) : q <= j
DeclaredNames(n) ==
    IF DirectivesIn(n) = {} THEN <<>>
    ELSE LET t == file[LastDirective(n)].toks
         IN [q \in 1..(Len(t) - 1) |-> t[q + 1]]

\* The cell the table holds for token tok in the column called name.
ExpectedCell(name, tok) ==
    IF name \in numeric_cols
    THEN IF tok \in DOMAIN NumLiteral THEN Numv(NumLiteral[tok]) ELSE NaN
    ELSE Txt(tok)

\* The file is one '#Fields:' line declaring k >= 1 names followed by N >= 1
\* data lines of exactly k tokens each.
C1_WellFormed ==
    /\ Len(file) >= 2
    /\ StartsWithFields(file[1])
    /\ Len(file[1].toks) >= 2
    /\ \A j \in 2..Len(file) :
          /\ ~StartsWithHash(file[j])
          /\ Len(file[j].toks) = Len(file[1].toks) - 1

\* The table has one row per data line, in the order of the lines.
C1_RowsPreserved ==
    /\ failure # "parse_iis_log"
    /\ raw_df.present
    /\ Len(raw_df.rows) = Len(file) - 1
    /\ \A r \in 1..(Len(file) - 1) : \A j \in 1..(Len(file[1].toks) - 1) :
          raw_df.rows[r][j] = ExpectedCell(file[1].toks[j + 1], file[r + 1].toks[j])

C1_DistinctNames ==
    \A a, b \in 2..Len(file[1].toks) :
        file[1].toks[a] = file[1].toks[b] => a = b

\* C1 as stated: for every '#Fields:' line of k >= 1 names followed by N >= 1
\* data lines of k tokens, parse_iis_log succeeds and the table has exactly
\* the N rows, in input order.
C1_Original == (pc # "scan" /\ C1_WellFormed) => C1_RowsPreserved

\* C1 as amended: the same, for a '#Fields:' line whose names are pairwise
\* distinct: parse_iis_log succeeds and the table has exactly the N rows, in
\* input order.
C1_Amended ==
    (pc # "scan" /\ C1_WellFormed /\ C1_DistinctNames) => C1_RowsPreserved

\* A finished run on a well-formed file of two different data lines.
C1_Witness ==
    /\ pc = "done"
    /\ C1_WellFormed
    /\ C1_DistinctNames
    /\ Len(file) >= 3
    /\ file[2] # file[3]
    /\ Len(raw_df.rows) = 2

\* Every '#Fields:' line of the file declares pairwise distinct names.
DistinctSchemas ==
    \A j \in DirectivesIn(Len(file)) : \A a, b \in 2..Len(file[j].toks) :
        file[j].toks[a] = file[j].toks[b] => a = b

\* C2 (on files whose '#Fields:' lines declare distinct names): once the
\* scan is over and a schema and a row are there, every
\* accepted record has exactly as many tokens as the schema the table is
\* built with has names: no line of another length has contributed a row.
C2_RowsFitSchema ==
    ( /\ pc # "scan" \/ i = Len(file)
      /\ DistinctSchemas
      /\ ~NothingParsed(fields, data) ) =>
        \A r \in DOMAIN data : Len(data[r]) = Len(fields.names)

\* C3: while and after the file is scanned, the schema is the names of the
\* last '#Fields:' line read so far (marker token excluded, in order), the
\* lines that begin with '#' have added no row, and the columns of the
\* table that parse_iis_log returns are those names, followed only by the
\* derived datetime (and hour) columns.
C3_LastDirectiveWins ==
    /\ fields.found = (DirectivesIn(i) # {})
    /\ fields.names = DeclaredNames(i)
    /\ Len(data) <= Cardinality({j \in 1..i : ~StartsWithHash(file[j])})
    /\ raw_df.present =>
          /\ Len(raw_df.columns) >= Len(DeclaredNames(Len(file)))
          /\ \A q \in DOMAIN raw_df.columns :
                IF q <= Len(DeclaredNames(Len(file)))
                THEN raw_df.columns[q] = DeclaredNames(Len(file))[q]
                ELSE raw_df.columns[q] \in {"datetime", "hour"}

\* A table built from a file with two '#Fields:' lines, a data line between
\* them, and a comment line.
C3_Witness ==
    /\ raw_df.present
    /\ Cardinality(DirectivesIn(Len(file))) >= 2
    /\ \E j \in DOMAIN file :
          /\ ~StartsWithHash(file[j]) /\ NotBlank(file[j])
          /\ \E a, b \in DirectivesIn(Len(file)) : a < j /\ j < b
    /\ file[1] # file[LastDirective(Len(file))]

\* C4 (on files whose '#Fields:' lines declare distinct names): after the
\* scan parse_iis_log has failed if and only if no '#Fields:' schema was
\* found or no data line was accepted; in every other case it has returned
\* a table.
C4_FailsIffNothingParsed ==
    (pc # "scan" /\ DistinctSchemas) =>
        /\ (failure = "parse_iis_log") = NothingParsed(fields, data)
        /\ (failure # "parse_iis_log") = raw_df.present

\* The cells of the coerced table the aggregations read.
StatusOf(j) == raw_df.rows[j][ColIdx(raw_df, "sc-status")]
UriOf(j) == raw_df.rows[j][ColIdx(raw_df, "cs-uri-stem")]
TakenOf(j) == raw_df.rows[j][ColIdx(raw_df, "time-taken")]

RECURSIVE SumTaken(_)
SumTaken(R) == IF R = {} THEN 0
               ELSE LET j == CHOOSE x \in R : TRUE
                    IN TakenOf(j).n + SumTaken(R \ {j})

\* cell is the mean (the max, the min) of time-taken over the rows R, all of
\* them numbers; NaN when R is empty.
IsMeanOf(cell, R) ==
    IF R = {} THEN cell = NaN
    ELSE IsNum(cell) /\ cell.n * Cardinality(R) = cell.d * SumTaken(R)
IsMaxOf(cell, R) ==
    IF R = {} THEN cell = NaN
    ELSE /\ IsNum(cell) /\ cell.d = 1
         /\ \E j \in R : TakenOf(j).n = cell.n
         /\ \A j \in R : TakenOf(j).n <= cell.n
IsMinOf(cell, R) ==
    IF R = {} THEN cell = NaN
    ELSE /\ IsNum(cell) /\ cell.d = 1
         /\ \E j \in R : TakenOf(j).n = cell.n
         /\ \A j \in R : TakenOf(j).n >= cell.n

\* The rows of status s, and those of them whose time-taken is a number.
GroupOf(s) == {j \in DOMAIN raw_df.rows : StatusOf(j) = Numv(s)}
TimedGroupOf(s) == {j \in GroupOf(s) : IsNum(TakenOf(j))}

\* The summary's rows are in strictly ascending order of status code.
SummaryAscending ==
    \A a, b \in DOMAIN summary_df.rows :
        a < b => summary_df.rows[a][1].n < summary_df.rows[b][1].n

C10_Original ==
    summary_df.present =>
        \A q \in DOMAIN summary_df.rows :
            LET row == summary_df.rows[q]
                T == TimedGroupOf(row[1].n)
            IN /\ row[2] = Numv(Cardinality(T))
               /\ IsMeanOf(row[3], T)
               /\ IsMaxOf(row[4], T)
               /\ IsMinOf(row[5], T)

\* C10 as amended: the count is the number of all rows of the group, those
\* with a null time-taken included; the mean, the max and the min are taken
\* over the group's rows whose time-taken is not null (null when there is
\* none).
C10_Amended ==
    summary_df.present =>
        \A q \in DOMAIN summary_df.rows :
            LET row == summary_df.rows[q]
                T == TimedGroupOf(row[1].n)
            IN /\ row[2] = Numv(Cardinality(GroupOf(row[1].n)))
               /\ IsMeanOf(row[3], T)
               /\ IsMaxOf(row[4], T)
               /\ IsMinOf(row[5], T)

\* A group of two rows, one of them with a null time-taken.
C10_Witness ==
    /\ summary_df.present
    /\ \E q \in DOMAIN summary_df.rows :
          /\ Cardinality(GroupOf(summary_df.rows[q][1].n)) = 2
          /\ Cardinality(TimedGroupOf(summary_df.rows[q][1].n)) = 1
          /\ summary_df.rows[q][2] = Numv(2)

\* The records of endpoint cell u and status s, and those of them whose
\* time-taken is a number.
PairOf(u, s) ==
    {j \in DOMAIN raw_df.rows : UriOf(j) = u /\ StatusOf(j) = Numv(s)}
TimedPairOf(u, s) == {j \in PairOf(u, s) : IsNum(TakenOf(j))}

\* The distinct non-null statuses of the table.
NumericStatuses ==
    {StatusOf(j).n : j \in {r \in DOMAIN raw_df.rows : IsNum(StatusOf(r))}}

PivotEndpoints ==
    {UriOf(j) : j \in {r \in DOMAIN raw_df.rows :
                          UriOf(r).k = "str" /\ IsNum(StatusOf(r))}}
PivotStatuses ==
    {StatusOf(j).n : j \in {r \in DOMAIN raw_df.rows :
                               UriOf(r).k = "str" /\ IsNum(StatusOf(r))}}
TimedStatuses ==
    {s \in PivotStatuses : \E u \in PivotEndpoints : TimedPairOf(u, s) # {}}
TimedEndpoints ==
    {u \in PivotEndpoints : \E s \in PivotStatuses : TimedPairOf(u, s) # {}}

ErrorsOf(u) ==
    {j \in DOMAIN raw_df.rows :
        UriOf(j) = u /\ IsNum(StatusOf(j)) /\ StatusOf(j).n >= 500}

\* C7: the error rollup has a row for an endpoint if and only if the
\* endpoint has a record of numeric status >= 500, one row per endpoint;
\* error_count is the number of those records, and the mean and the max are
\* taken over them alone.
C7_ErrorRollup ==
    error_df.present =>
        /\ \A r \in DOMAIN error_df.rows :
              LET row == error_df.rows[r]
                  E == ErrorsOf(row[1])
              IN /\ E # {}
                 /\ row[2] = Numv(Cardinality(E))
                 /\ IsMeanOf(row[3], {j \in E : IsNum(TakenOf(j))})
                 /\ IsMaxOf(row[4], {j \in E : IsNum(TakenOf(j))})
        /\ \A j \in DOMAIN raw_df.rows :
              (UriOf(j).k = "str" /\ ErrorsOf(UriOf(j)) # {}) =>
                  \E r \in DOMAIN error_df.rows : error_df.rows[r][1] = UriOf(j)
        /\ \A a, b \in DOMAIN error_df.rows :
              error_df.rows[a][1] = error_df.rows[b][1] => a = b

\* A rollup of one row, of a table that also has an endpoint whose only
\* record has status 499.
C7_Witness ==
    /\ error_df.present
    /\ Len(error_df.rows) = 1
    /\ \E j \in DOMAIN raw_df.rows :
          /\ StatusOf(j) = Numv(499)
          /\ UriOf(j) # error_df.rows[1][1]

\* C8: the workbook holds StatusSummary, RawData, then PivotTable exactly
\* when the pivot is present, then ErrorSummary exactly when the rollup is
\* present; a finished run has a workbook; and a table with sc-status and
\* time-taken but no cs-uri-stem never fails, has neither pivot nor rollup,
\* and gives the workbook StatusSummary, RawData.
C8_Sheets ==
    /\ xlsx_output # <<>> =>
          /\ Len(xlsx_output) = 2 + (IF pivot_df.present THEN 1 ELSE 0)
                                  + (IF error_df.present THEN 1 ELSE 0)
          /\ xlsx_output[1] = "StatusSummary"
          /\ xlsx_output[2] = "RawData"
          /\ pivot_df.present => xlsx_output[3] = "PivotTable"
          /\ error_df.present => xlsx_output[Len(xlsx_output)] = "ErrorSummary"
    /\ pc \in {"present", "done"} => xlsx_output # <<>> /\ summary_df.present
    /\ ( /\ raw_df.present
         /\ HasColumn(raw_df, "sc-status")
         /\ HasColumn(raw_df, "time-taken")
         /\ ~HasColumn(raw_df, "cs-uri-stem") ) =>
          /\ pc # "failed"
          /\ ~pivot_df.present
          /\ ~error_df.present
          /\ pc \in {"present", "done"} =>
                xlsx_output = <<"StatusSummary", "RawData">>

\* A finished run on a file without cs-uri-stem.
C8_Witness ==
    /\ pc = "done"
    /\ ~HasColumn(raw_df, "cs-uri-stem")
    /\ xlsx_output = <<"StatusSummary", "RawData">>

\* C9: the workbook and every output other than the error message exist
\* only after parse_iis_log, generate_summary, create_pivot_table and
\* get_error_apps have returned, in this order; when parse_iis_log fails, or
\* generate_summary fails for want of sc-status or time-taken, the run is
\* over with the one error message, no later function has been called and
\* there is no workbook.
C9_OutputAfterAggregation ==
    /\ (xlsx_output # <<>> \/ (shown # <<>> /\ shown # <<"error">>)) =>
          /\ failure = ""
          /\ Len(calls) >= 5
          /\ SubSeq(calls, 1, 5) = <<"parse_iis_log", "generate_summary",
                                     "create_pivot_table", "get_error_apps",
                                     "create_xlsx">>
          /\ raw_df.present
          /\ summary_df.present
    /\ (pc # "scan" /\ ~raw_df.present) => failure = "parse_iis_log"
    /\ ( /\ raw_df.present
         /\ pc # "summary"
         /\ ~(HasColumn(raw_df, "sc-status") /\ HasColumn(raw_df, "time-taken")) )
          => failure = "generate_summary"
    /\ failure \in {"parse_iis_log", "generate_summary"} =>
          /\ pc = "failed"
          /\ calls[Len(calls)] = failure
          /\ Len(calls) = (IF failure = "parse_iis_log" THEN 1 ELSE 2)
          /\ shown = <<"error">>
          /\ xlsx_output = <<>>
          /\ ~summary_df.present
          /\ ~pivot_df.present
          /\ ~error_df.present

\* A run that generate_summary ended.
C9_Witness ==
    /\ pc = "failed"
    /\ failure = "generate_summary"
    /\ raw_df.present

====
